---- MODULE Spec2Model ----
(***************************************************************************)
(* A model of JsonDataCollector (collector.py) and of the Field classes    *)
(* (fields.py): field extraction, the in-memory duplicate index, the       *)
(* auto-increment identifier, batched commits against the SQLite backend,  *)
(* append-mode rehydration and teardown.                                    *)
(*                                                                         *)
(* Python values are records [t, s, n]: t is the Python type, s is what    *)
(* str() returns for the value and n is its numeric value (0 when the      *)
(* value is not a number).  A raw record (a dict) is a function from the   *)
(* paths of its leaves to the leaf values; a record that is not a dict has *)
(* the single path <<>>.                                                   *)
(***************************************************************************)
EXTENDS Integers, Sequences, FiniteSets, TLC

\* ---------------------------------------------------------------- bounds
MaxBatch    == 3    \* batch_size ranges over 1..MaxBatch
MaxRecords  == 3    \* records handed to add over the whole run
MaxAddLen   == 2    \* longest list handed to one add call
MaxSessions == 2    \* collector objects constructed one after the other
MaxFaults   == 1    \* commits the backend rejects
MaxInt      == 3    \* numbers that occur in raw records are 0..MaxInt

\* ---------------------------------------------------------- Python values
V(t, s, n) == [t |-> t, s |-> s, n |-> n]

IntStr == [i \in 0..MaxInt |->
            CASE i = 0 -> "0" [] i = 1 -> "1" [] i = 2 -> "2" [] i = 3 -> "3"
              [] OTHER -> "4"]

None     == V("NoneType", "None", 0)
NaN      == V("float", "nan", 0)
PyInt(i) == V("int", IntStr[i], i)
PyFloat(i) == V("float", IntStr[i] \o ".0", i)
PyStr(s) == V("str", s, 0)
PyDict   == V("dict", "{'y': 1}", 0)

IsNaN(v) == v.t = "float" /\ v.s = "nan"
IsNum(v) == v.t \in {"int", "float"} /\ ~IsNaN(v)

\* Python's == on two values: a NaN equals nothing, itself included; an int
\* and a float are equal when their numeric values are.
PyEq(x, y) ==
  /\ ~IsNaN(x)
  /\ ~IsNaN(y)
  /\ \/ x = y
     \/ IsNum(x) /\ IsNum(y) /\ x.n = y.n

\* The result of a call that may raise.
Ok(v)    == [ok |-> TRUE, v |-> v, exc |-> "none"]
Raise(e) == [ok |-> FALSE, v |-> None, exc |-> e]

\* str(x)
str(x) == PyStr(x.s)

\* int(x): ints and whole floats convert, a string converts when it is the
\* decimal form of an integer, int(nan) and int("3.0") raise ValueError, a
\* dict raises TypeError.
int(x) ==
  CASE x.t = "int" -> Ok(x)
    [] x.t = "float" -> IF IsNaN(x) THEN Raise("ValueError") ELSE Ok(PyInt(x.n))
    [] x.t = "str" ->
         IF \E i \in 0..MaxInt : IntStr[i] = x.s
           THEN Ok(PyInt(CHOOSE i \in 0..MaxInt : IntStr[i] = x.s))
           ELSE Raise("ValueError")
    [] OTHER -> Raise("TypeError")

\* float(x): numbers convert, a string converts when it is the form of an
\* integer, of a whole float or of nan, a dict raises TypeError.
float(x) ==
  CASE x.t = "float" -> Ok(x)
    [] x.t = "int" -> Ok(PyFloat(x.n))
    [] x.t = "str" ->
         IF \E i \in 0..MaxInt : x.s \in {IntStr[i], IntStr[i] \o ".0"}
           THEN Ok(PyFloat(CHOOSE i \in 0..MaxInt : x.s \in {IntStr[i], IntStr[i] \o ".0"}))
           ELSE IF x.s = "nan" THEN Ok(NaN) ELSE Raise("ValueError")
    [] OTHER -> Raise("TypeError")

\* ------------------------------------------------------------- raw records
\* The raw records add meets, by name: four mappings, and the strings that
\* are their keys (a record that is a string is named by the string).
RecordOf ==
  [ ab_c   |-> (<<"a">> :> PyStr("ab")) @@ (<<"b">> :> PyStr("c"))
                 @@ (<<"v">> :> PyFloat(1)),
    a_bc   |-> (<<"a">> :> PyStr("a")) @@ (<<"b">> :> PyStr("bc"))
                 @@ (<<"m", "x">> :> PyStr("3")) @@ (<<"v">> :> PyInt(1)),
    bad    |-> (<<"m", "x">> :> PyStr("q")) @@ (<<"a">> :> PyStr("ab")),
    nested |-> (<<"v", "y">> :> PyInt(1)) @@ (<<"m">> :> PyInt(2)),
    a      |-> (<<>> :> PyStr("a")),
    b      |-> (<<>> :> PyStr("b")),
    m      |-> (<<>> :> PyStr("m")),
    v      |-> (<<>> :> PyStr("v")) ]

\* The mappings a caller hands to add.
RecordNames == {"ab_c", "a_bc", "bad", "nested"}

\* list(r) for a mapping r: its keys in insertion order.
list(name) ==
  CASE name = "ab_c" -> <<"a", "b", "v">>
    [] name = "a_bc" -> <<"a", "b", "m", "v">>
    [] name = "bad" -> <<"m", "a">>
    [] name = "nested" -> <<"v", "m">>

IsPrefix(p, q) == Len(p) <= Len(q) /\ SubSeq(q, 1, Len(p)) = p

\* isinstance(r, dict) for the node of record rec at path p
IsDictAt(rec, p) == p \notin DOMAIN rec /\ <<>> \notin DOMAIN rec

\* key in r.keys() for the dict at path p
HasKey(rec, p, key) == \E q \in DOMAIN rec : IsPrefix(Append(p, key), q)

\* the value of the node at path p: a leaf value, or a dict
NodeAt(rec, p) == IF p \in DOMAIN rec THEN rec[p] ELSE PyDict

\* ------------------------------------------------------------------ fields
\* A Field object: name, the class it is an instance of (kind), the split
\* raw_name, and the names of the configured validator, converter and parser.
MkField(name, kind, raw, validator) ==
  [name |-> name, kind |-> kind, raw |-> raw, validator |-> validator,
   converter |-> "none", parser |-> "default"]

\* The validators a field is configured with: what the callable returns.
CallValidator(validator, v) ==
  CASE validator = "is_text" -> v.t = "str"
    [] OTHER -> TRUE

\* The converters a field is configured with.
CallConverter(converter, v) ==
  CASE converter = "to_text" -> str(v)
    [] OTHER -> v

\* The loop of Field.default_value_parser: walk the split raw_name from the
\* node at path p; found is FALSE when a key is missing or the node is not a dict.
RECURSIVE WalkFrom(_, _, _)
WalkFrom(rec, p, rest) ==
  IF rest = <<>>
    THEN [found |-> TRUE, v |-> NodeAt(rec, p)]
    ELSE IF IsDictAt(rec, p) /\ HasKey(rec, p, Head(rest))
           THEN WalkFrom(rec, Append(p, Head(rest)), Tail(rest))
           ELSE [found |-> FALSE, v |-> None]

\* A parser that validates what the walk left when it failed, too.
AfterWalk_validates_missing(f, w) ==
  IF f.validator # "none" /\ CallValidator(f.validator, w.v) = FALSE
    THEN Raise("ValueError")
    ELSE IF ~w.found THEN Ok(None) ELSE Ok(w.v)

\* Field.default_value_parser after the walk, whose result is w.
AfterWalk(f, w) ==
  IF ~w.found
    THEN Ok(None)
    ELSE IF f.validator # "none" /\ CallValidator(f.validator, w.v) = FALSE
           THEN Raise("ValueError")
           ELSE IF f.converter # "none"
                  THEN Ok(CallConverter(f.converter, w.v))
                  ELSE Ok(w.v)

\* Field.default_value_parser
default_value_parser(f, rec) == AfterWalk(f, WalkFrom(rec, <<>>, f.raw))

\* The cast String, Int and Float apply to the result b of the base parser;
\* Field and DateTime keep the base parser's result.
Cast(f, b) ==
  IF ~b.ok
    THEN b
    ELSE CASE f.kind = "String" -> IF b.v # None THEN Ok(str(b.v)) ELSE Ok(None)
           [] f.kind = "Int"    -> IF b.v # None THEN int(b.v) ELSE Ok(None)
           [] f.kind = "Float"  -> IF b.v # None THEN float(b.v) ELSE Ok(NaN)
           [] OTHER -> b

\* default_value_parser of String, Int and Float: the base parser, then the cast.
typed_value_parser(f, rec) == Cast(f, default_value_parser(f, rec))

\* The value_parser callables a field is configured with: get_v is
\* `lambda r: r.get("v")`, which raises on a record that is not a dict.
CallParser(parser, rec) ==
  CASE parser = "get_v" ->
         IF ~IsDictAt(rec, <<>>)
           THEN Raise("AttributeError")
           ELSE IF HasKey(rec, <<>>, "v") THEN Ok(NodeAt(rec, <<"v">>)) ELSE Ok(None)
    [] OTHER -> Ok(None)

\* Field.parse: self._value_parser is the configured callable, or the
\* default_value_parser of the field's class when none is configured.
parse(f, rec) ==
  IF f.parser = "default"
    THEN typed_value_parser(f, rec)
    ELSE CallParser(f.parser, rec)

\* Field.type: the declared SQLite column type
type(f) ==
  CASE f.kind = "String" -> "TEXT"
    [] f.kind = "Int" -> "INTEGER"
    [] f.kind = "Float" -> "REAL"
    [] f.kind = "DateTime" -> "INTEGER"
    [] OTHER -> "BLOB"

\* The dict comprehension of add: the fields are parsed in order and the first
\* exception ends the comprehension.  A parsed row is the sequence of the
\* values in field order; x is the result of parsing field i.
RECURSIVE ParseFrom(_, _, _, _)
RECURSIVE ParseNext(_, _, _, _, _)
ParseNext(fs, rec, i, acc, x) ==
  IF x.ok
    THEN ParseFrom(fs, rec, i + 1, Append(acc, x.v))
    ELSE [ok |-> FALSE, row |-> <<>>, exc |-> x.exc]

ParseFrom(fs, rec, i, acc) ==
  IF i > Len(fs)
    THEN [ok |-> TRUE, row |-> acc, exc |-> "none"]
    ELSE ParseNext(fs, rec, i, acc, parse(fs[i], rec))

ParseRecord(fs, rec) == ParseFrom(fs, rec, 1, <<>>)

\* The fields the collector is constructed with: two text columns, a real
\* column and an untyped one.
fields ==
  << MkField("k1", "String", <<"a">>, "none"),
     MkField("k2", "String", <<"b">>, "none"),
     MkField("x", "Float", <<"m", "x">>, "none"),
     MkField("v", "Field", <<"v">>, "none") >>

\* unique_keys: indices into the fields, counted from 0 as in Python.
UniqueKeyChoices == { <<>>, <<0, 1>>, <<2>>, <<3>> }

\* ------------------------------------------------------------ SQLite side
\* What SQLite keeps of a bound Python value in a column of the declared
\* type, as Python reads it back: NaN is stored as NULL, and the column
\* affinity converts between numbers and text where that loses nothing (num
\* is the number the text v reads as, if it reads as one).
StoredAs(coltype, v, num) ==
  CASE v = None \/ IsNaN(v) -> None
    [] coltype = "TEXT" /\ IsNum(v) -> PyStr(v.s)
    [] coltype = "INTEGER" /\ v.t = "float" -> PyInt(v.n)
    [] coltype = "INTEGER" /\ v.t = "str" /\ num.ok /\ ~IsNaN(num.v) -> PyInt(num.v.n)
    [] coltype = "REAL" /\ v.t = "int" -> PyFloat(v.n)
    [] coltype = "REAL" /\ v.t = "str" /\ num.ok /\ ~IsNaN(num.v) -> num.v
    [] OTHER -> v

Stored(coltype, v) == StoredAs(coltype, v, float(v))

\* sqlite3 binds None, int, float, str and bytes; any other type is rejected.
Bindable(v) == v.t # "dict"

\* --------------------------------------------------------- duplicate index
\* hashlib.md5 over the bytes fed to it.  MD5 has no collision among the few
\* short strings of this model, so the digest of a string stands for the
\* string: two digests are equal exactly when the hashed bytes are.
md5(bytes) == bytes

\* The concatenation md5.update builds over the unique keys.
RECURSIVE KeyBytes(_, _, _)
KeyBytes(vals, unique_keys, i) ==
  IF i > Len(unique_keys)
    THEN ""
    ELSE str(vals[unique_keys[i] + 1]).s \o KeyBytes(vals, unique_keys, i + 1)

\* JsonDataCollector.__hash_unique_key, for a parsed row and for a row read
\* back from the table alike (both are indexed by field position here).
hash_unique_key(unique_keys, vals) ==
  IF Len(unique_keys) = 0
    THEN Raise("RuntimeError")
    ELSE Ok(PyStr(md5(KeyBytes(vals, unique_keys, 1))))

\* tuple(r[self.fields[key_id].name] for key_id in self._unique_keys)
KeyTuple(unique_keys, vals) ==
  [i \in 1..Len(unique_keys) |-> vals[unique_keys[i] + 1]]

\* A comparison that takes two tuples under one digest for equal.
tuple_eq_trusts_digest(x, y) == TRUE

\* JsonDataCollector.__tuple_eq
tuple_eq(x, y) == \A i \in 1..Len(x) : PyEq(x[i], y[i])

\* JsonDataCollector.__has_duplicate
has_duplicate(hash_keys, unique_keys, vals, r_hash) ==
  IF r_hash \notin DOMAIN hash_keys
    THEN FALSE
    ELSE \E j \in 1..Len(hash_keys[r_hash]) :
           tuple_eq(hash_keys[r_hash][j], KeyTuple(unique_keys, vals))

\* An index that keeps each tuple once per bucket.
HashAppend_distinct(hash_keys, r_hash, keys) ==
  IF r_hash \notin DOMAIN hash_keys
    THEN (r_hash :> <<keys>>) @@ hash_keys
    ELSE IF \E j \in 1..Len(hash_keys[r_hash]) : hash_keys[r_hash][j] = keys
           THEN hash_keys
           ELSE [hash_keys EXCEPT ![r_hash] = Append(@, keys)]

\* The update of self._hash_keys in __insert and in __init_sqlite.
HashAppend(hash_keys, r_hash, keys) ==
  IF r_hash \notin DOMAIN hash_keys
    THEN (r_hash :> <<keys>>) @@ hash_keys
    ELSE [hash_keys EXCEPT ![r_hash] = Append(@, keys)]

\* ------------------------------------------------------------------ engine
\* What the backend stores of a parsed row: a table row [vals, id], with the
\* values that were handed to the INSERT kept beside it.
StoredRow(row, id) ==
  [vals |-> [i \in 1..Len(fields) |-> Stored(type(fields[i]), row[i])], id |-> id,
   handed |-> row]

\* A test that skips duplicates whatever ignore_duplicates says.
ShouldStore_always_skip(skip_duplicate, duplicate) == duplicate = FALSE

\* The test of __insert that decides whether the row is stored.
ShouldStore(skip_duplicate, duplicate) == skip_duplicate = FALSE \/ duplicate = FALSE

\* A commit test that passes at every other boundary only.
AtBatchBoundary_every_other(inc_id, batch_size) == inc_id % (2 * batch_size) = 0

\* A commit test on the counter as it was before the increment.
AtBatchBoundary_before(inc_id, batch_size) == (inc_id - 1) % batch_size = 0

\* The commit test of __insert.
AtBatchBoundary(inc_id, batch_size) == inc_id % batch_size = 0

\* A commit whose rejection loses the rows that were pending.
insert_commit_loses_pending(c, m1, id, fault) ==
  IF AtBatchBoundary(m1.inc_id, c.batch_size)
    THEN IF fault
           THEN [m |-> [m1 EXCEPT !.table = SubSeq(@, 1, m1.ncommitted)],
                 exc |-> "OperationalError", at |-> "commit",
                 id |-> id, commit |-> TRUE]
           ELSE [m |-> [m1 EXCEPT !.ncommitted = Len(m1.table)],
                 exc |-> "none", at |-> "none", id |-> id, commit |-> TRUE]
    ELSE [m |-> m1, exc |-> "none", at |-> "none", id |-> id, commit |-> FALSE]

\* The end of __insert: the commit test and the commit.  m1 is the collector's
\* state after the insertion, id the identifier the row got (0 when none).
insert_commit(c, m1, id, fault) ==
  IF AtBatchBoundary(m1.inc_id, c.batch_size)
    THEN IF fault
           THEN [m |-> m1, exc |-> "OperationalError", at |-> "commit",
                 id |-> id, commit |-> TRUE]
           ELSE [m |-> [m1 EXCEPT !.ncommitted = Len(m1.table)],
                 exc |-> "none", at |-> "none", id |-> id, commit |-> TRUE]
    ELSE [m |-> m1, exc |-> "none", at |-> "none", id |-> id, commit |-> FALSE]

\* An __insert whose commit test is inside the if: a discarded row ends the
\* call at once.
insert_row_commit_inside(c, m, row, r_hash, store, fault) ==
  IF store
    THEN IF \E i \in 1..Len(row) : ~Bindable(row[i])
           THEN [m |-> m, exc |-> "ProgrammingError", at |-> "insert",
                 id |-> 0, commit |-> FALSE]
           ELSE insert_commit(c,
                  [m EXCEPT
                     !.table = Append(@, StoredRow(row, m.inc_id)),
                     !.hash_keys = HashAppend(@, r_hash, KeyTuple(c.unique_keys, row)),
                     !.inc_id = @ + 1],
                  m.inc_id, fault)
    ELSE [m |-> m, exc |-> "none", at |-> "none", id |-> 0, commit |-> FALSE]

\* The body of the if of __insert: the INSERT, which SQLite rejects when a
\* value cannot be bound, then the index update and the increment.
insert_row(c, m, row, r_hash, store, fault) ==
  IF store
    THEN IF \E i \in 1..Len(row) : ~Bindable(row[i])
           THEN [m |-> m, exc |-> "ProgrammingError", at |-> "insert",
                 id |-> 0, commit |-> FALSE]
           ELSE insert_commit(c,
                  [m EXCEPT
                     !.table = Append(@, StoredRow(row, m.inc_id)),
                     !.hash_keys = HashAppend(@, r_hash, KeyTuple(c.unique_keys, row)),
                     !.inc_id = @ + 1],
                  m.inc_id, fault)
    ELSE insert_commit(c, m, 0, fault)

\* __insert once the digest h is computed.
insert_hashed(c, m, row, h, fault) ==
  IF ~h.ok
    THEN [m |-> m, exc |-> h.exc, at |-> "hash", id |-> 0, commit |-> FALSE]
    ELSE insert_row(c, m, row, h.v.s,
           ShouldStore(c.skip_duplicate,
                       has_duplicate(m.hash_keys, c.unique_keys, row, h.v.s)),
           fault)

\* JsonDataCollector.__insert on the parsed row.  m is the collector's state
\* [table, ncommitted, hash_keys, inc_id]; fault says that the backend
\* rejects the commit, should the call issue one (a full disk, a locked file).
\* The result is the state the call leaves, the exception it raises and
\* where, the identifier given to the row (0 when none), and whether it
\* issued a commit.
insert(c, m, row, fault) ==
  insert_hashed(c, m, row, hash_unique_key(c.unique_keys, row), fault)

\* An add without the try: nothing is caught.
Catches_nothing(at) == FALSE

\* An except clause around the parsing alone.
Catches_parse_only(at) == at = "parse"

\* Whether the except clause of add catches an exception raised at the given
\* place: `except Exception` catches every one of them.
Catches(at) == TRUE

\* The try block of add once the record is parsed, p being the result.
try_insert(c, m, p, fault) ==
  IF p.ok
    THEN insert(c, m, p.row, fault)
    ELSE [m |-> m, exc |-> p.exc, at |-> "parse", id |-> 0, commit |-> FALSE]

\* The except clause of add, r being the result of the try block: the state
\* after the record and its log entry: the record, the exception it raised
\* and where, the identifier its row got (0 when none), whether a commit was
\* issued, the identifier counter, the number of rows and the index before
\* and after, how often the error handler was called with it, and whether
\* the exception left add.
except_clause(c, m, name, r) ==
  [m |-> r.m,
   entry |-> [rec |-> name, exc |-> r.exc, at |-> r.at, id |-> r.id,
              commit |-> r.commit,
              inc_before |-> m.inc_id, inc_after |-> r.m.inc_id,
              rows_before |-> Len(m.table), rows_after |-> Len(r.m.table),
              index_changed |-> r.m.hash_keys # m.hash_keys,
              hash_before |-> m.hash_keys, hash_after |-> r.m.hash_keys,
              handled |-> IF r.exc # "none" /\ Catches(r.at) /\ c.error_handler
                            THEN 1 ELSE 0,
              escaped |-> r.exc # "none" /\ ~Catches(r.at)]]

\* The body of the loop of add for one record.
add_record(c, m, name, fault) ==
  except_clause(c, m, name,
                try_insert(c, m, ParseRecord(fields, RecordOf[name]), fault))

\* The loop of add over the list r_list: the records one after the other,
\* until the list ends or an exception leaves add; x is the outcome of
\* record i.
RECURSIVE add_loop(_, _, _, _, _, _)
RECURSIVE add_next(_, _, _, _, _, _)
add_next(c, r_list, faults, i, log, x) ==
  IF x.entry.escaped
    THEN [m |-> x.m, log |-> Append(log, x.entry)]
    ELSE add_loop(c, x.m, r_list, faults, i + 1, Append(log, x.entry))

add_loop(c, m, r_list, faults, i, log) ==
  IF i > Len(r_list)
    THEN [m |-> m, log |-> log]
    ELSE add_next(c, r_list, faults, i, log, add_record(c, m, r_list[i], faults[i]))

\* ------------------------------------------------------------------- state
VARIABLES
  cfg,          \* the constructor's arguments: unique_keys, skip_duplicate,
                \* batch_size, error_handler (is one configured); the fields
                \* are those of `fields` and in_memory is False
  append,       \* self._append of the current collector object
  state,        \* "Uninitialized", "Accepting", "InitFailed" or "Finalized"
  session,      \* how many collector objects have been constructed
  disk,         \* the committed rows of the database file
  table,        \* the rows the open connection sees, uncommitted ones included
  ncommitted,   \* how many of them are committed
  hash_keys,    \* self._hash_keys: digest -> list of key tuples
  inc_id,       \* self._inc_id
  closed,       \* the connection has been closed
  call,         \* the list handed to the latest add
  log,          \* one entry per record the latest add processed
  prev,         \* hash_keys and table of the collector torn down before this
                \* one, kept while this one appends to what that one left,
                \* and the number of rows this one found in the file
  nrecs,        \* records handed to add so far
  nfaults,      \* storage calls rejected so far
  pfield,       \* a Field object on its own,
  precord,      \* the record it is asked to parse (by name),
  presult       \* and what Field.parse returned or raised

collector_vars ==
  << cfg, append, state, session, disk, table, ncommitted, hash_keys,
     inc_id, closed, call, log, prev, nrecs, nfaults >>

field_vars == << pfield, precord, presult >>

vars == << collector_vars, field_vars >>

EmptyIndex == [d \in {} |-> <<>>]

Configs ==
  [unique_keys : UniqueKeyChoices, skip_duplicate : BOOLEAN,
   batch_size : 1..MaxBatch, error_handler : BOOLEAN]

\* The table the database file holds before the first collector opens it.
\* With unique keys, the filled tables are those the run's own collectors
\* leave.  A collector without unique keys stores nothing, so the filled
\* table it may find is one an earlier program left: one row of record ab_c.
InitialTables(c) ==
  IF c.unique_keys = <<>>
    THEN { <<>>, << StoredRow(ParseRecord(fields, RecordOf["ab_c"]).row, 1) >> }
    ELSE { <<>> }

Init ==
  /\ cfg \in Configs
  /\ append = FALSE
  /\ state = "Uninitialized"
  /\ session = 0
  /\ disk \in InitialTables(cfg)
  /\ table = <<>>
  /\ ncommitted = 0
  /\ hash_keys = EmptyIndex
  /\ inc_id = 1
  /\ closed = FALSE
  /\ call = <<>>
  /\ log = <<>>
  /\ prev = [hash_keys |-> EmptyIndex, table |-> <<>>, found |-> 0]
  /\ nrecs = 0
  /\ nfaults = 0
  /\ pfield = fields[1]
  /\ precord = "ab_c"
  /\ presult = parse(fields[1], RecordOf["ab_c"])

\* The rehydration loop of __init_sqlite over the rows of the table, from
\* row i on: the index it builds, or the exception __hash_unique_key raises
\* (h is the digest of row i).
RECURSIVE Rehydrate(_, _, _, _)
RECURSIVE RehydrateRow(_, _, _, _, _)
RehydrateRow(unique_keys, rows, i, idx, h) ==
  IF ~h.ok
    THEN [ok |-> FALSE, hash_keys |-> idx]
    ELSE Rehydrate(unique_keys, rows, i + 1,
                   HashAppend(idx, h.v.s, KeyTuple(unique_keys, rows[i].vals)))

Rehydrate(unique_keys, rows, i, idx) ==
  IF i > Len(rows)
    THEN [ok |-> TRUE, hash_keys |-> idx]
    ELSE RehydrateRow(unique_keys, rows, i, idx,
                      hash_unique_key(unique_keys, rows[i].vals))

\* A counter that starts at 0 in truncate mode.
InitialId_zero(app, existing_count) == IF app THEN existing_count + 1 ELSE 0

\* The identifier counter __init_sqlite sets.
InitialId(app, existing_count) == IF app THEN existing_count + 1 ELSE 1

\* The end of __init_sqlite: rows are the rows of the table after the DDL,
\* re is the outcome of the rehydration.
Initialized(app, rows, re) ==
  /\ append' = app
  /\ table' = rows
  /\ ncommitted' = Len(rows)
  /\ disk' = rows
  /\ hash_keys' = re.hash_keys
  /\ inc_id' = IF re.ok THEN InitialId(app, Len(rows)) ELSE 1
  /\ state' = IF re.ok THEN "Accepting" ELSE "InitFailed"

\* An initialization that never drops the table.
AfterDDL_keeps_rows(app, existing) == existing

\* The rows of the table once __init_sqlite has dropped it (unless appending)
\* and created it if absent.
AfterDDL(app, existing) == IF app = FALSE THEN <<>> ELSE existing

\* JsonDataCollector.__init__ with append = app: connect, drop the table
\* unless appending, create table and indexes, commit, rehydrate the index
\* and set the identifier counter.  When the rehydration raises, the
\* constructor raises and the half-built object is left to __del__.
Open(app) ==
  /\ state \in {"Uninitialized", "Finalized"}
  /\ session < MaxSessions
  /\ Initialized(app, AfterDDL(app, disk),
                 IF app THEN Rehydrate(cfg.unique_keys, AfterDDL(app, disk), 1, EmptyIndex)
                        ELSE [ok |-> TRUE, hash_keys |-> EmptyIndex])
  /\ session' = session + 1
  /\ closed' = FALSE
  /\ call' = <<>>
  /\ log' = <<>>
  /\ prev' = IF app THEN [prev EXCEPT !.found = Len(disk)]
                    ELSE [hash_keys |-> EmptyIndex, table |-> <<>>, found |-> Len(disk)]
  /\ UNCHANGED << cfg, nrecs, nfaults, field_vars >>

NumFaults(faults) == Cardinality({i \in 1..Len(faults) : faults[i]})

\* The state add leaves, x being the outcome of its loop.
Added(x) ==
  /\ table' = x.m.table
  /\ ncommitted' = x.m.ncommitted
  /\ hash_keys' = x.m.hash_keys
  /\ inc_id' = x.m.inc_id
  /\ disk' = SubSeq(x.m.table, 1, x.m.ncommitted)
  /\ log' = x.log

\* JsonDataCollector.add on the list r_list; faults[i] says that the backend
\* rejects the commit issued for record i.
Add(r_list, faults) ==
  /\ state = "Accepting"
  /\ nrecs + Len(r_list) <= MaxRecords
  /\ nfaults + NumFaults(faults) <= MaxFaults
  /\ Added(add_loop(cfg,
                    [table |-> table, ncommitted |-> ncommitted,
                     hash_keys |-> hash_keys, inc_id |-> inc_id],
                    r_list, faults, 1, <<>>))
  /\ call' = r_list
  /\ nrecs' = nrecs + Len(r_list)
  /\ nfaults' = nfaults + NumFaults(faults)
  /\ UNCHANGED << cfg, append, state, session, closed, prev, field_vars >>

\* A __del__ that closes without the commit.
FinalCommit_missing(fault, committed, rows) == committed

\* The commit of __del__: the number of committed rows it leaves.
FinalCommit(fault, committed, rows) == IF fault THEN committed ELSE rows

\* JsonDataCollector.add on a mapping: the loop runs over list(r).
AddSingle(name, faults) == Add(list(name), faults)

\* JsonDataCollector.__del__: commit, then close.  When the commit raises,
\* close is not reached.  Closing discards what is not committed.
Del(fault) ==
  /\ state \in {"Accepting", "InitFailed"}
  /\ nfaults + (IF fault THEN 1 ELSE 0) <= MaxFaults
  /\ ncommitted' = FinalCommit(fault, ncommitted, Len(table))
  /\ disk' = SubSeq(table, 1, FinalCommit(fault, ncommitted, Len(table)))
  /\ closed' = ~fault
  /\ state' = "Finalized"
  /\ prev' = [hash_keys |-> hash_keys, table |-> table, found |-> prev.found]
  /\ nfaults' = nfaults + (IF fault THEN 1 ELSE 0)
  /\ UNCHANGED << cfg, append, session, table, hash_keys, inc_id, call, log, nrecs,
                  field_vars >>

Next ==
  \/ \E app \in BOOLEAN : Open(app)
  \/ \E n \in 1..MaxAddLen : \E r_list \in [1..n -> RecordNames] :
       \E faults \in [1..n -> BOOLEAN] : Add(r_list, faults)
  \/ \E name \in RecordNames :
       \E faults \in [1..Len(list(name)) -> BOOLEAN] : AddSingle(name, faults)
  \/ \E fault \in BOOLEAN : Del(fault)

Spec == Init /\ [][Next]_vars

\* ---------------------------------------------------- a field on its own
\* The Field objects a schema may hold: every class, a path that is a key, a
\* nested path, and a path through a value that is no mapping, with and
\* without a validator, a converter and a custom value_parser.
FieldChoices ==
  [name : {"f"}, kind : {"Field", "String", "Int", "Float", "DateTime"},
   raw : { <<"a">>, <<"v">>, <<"m", "x">>, <<"a", "z">> },
   validator : {"none", "is_text"}, converter : {"none", "to_text"},
   parser : {"default", "get_v"}]

NotParsed == Raise("pending")

\* A Field is constructed and no collector is.
ParseInit ==
  /\ cfg = [unique_keys |-> <<>>, skip_duplicate |-> FALSE, batch_size |-> 1,
            error_handler |-> FALSE]
  /\ append = FALSE
  /\ state = "Uninitialized"
  /\ session = 0
  /\ disk = <<>>
  /\ table = <<>>
  /\ ncommitted = 0
  /\ hash_keys = EmptyIndex
  /\ inc_id = 1
  /\ closed = FALSE
  /\ call = <<>>
  /\ log = <<>>
  /\ prev = [hash_keys |-> EmptyIndex, table |-> <<>>, found |-> 0]
  /\ nrecs = 0
  /\ nfaults = 0
  /\ pfield \in FieldChoices
  /\ precord \in DOMAIN RecordOf
  /\ presult = NotParsed

\* Field.parse(record)
Parse ==
  /\ presult = NotParsed
  /\ presult' = parse(pfield, RecordOf[precord])
  /\ UNCHANGED << collector_vars, pfield, precord >>

FieldNext == Parse

ParseSpec == ParseInit /\ [][FieldNext]_vars

\* ------------------------------------------------------------------ claims
\* The log entries of the latest add whose row was stored, and the rows of the
\* table that add appended.
LogStored == SelectSeq(log, LAMBDA e : e.id # 0)
NewRows == SubSeq(table, Len(table) - Len(LogStored) + 1, Len(table))

Extracted(name) == ParseRecord(fields, RecordOf[name]).ok
RowOf(name) == ParseRecord(fields, RecordOf[name]).row
Accepted(name) == Extracted(name) /\ \A i \in 1..Len(fields) : Bindable(RowOf(name)[i])

Live == state \in {"Accepting", "Finalized"}
KeysOf(rows) == {KeyTuple(cfg.unique_keys, rows[i].vals) : i \in 1..Len(rows)}
IndexKeys(idx) == UNION {{idx[d][j] : j \in 1..Len(idx[d])} : d \in DOMAIN idx}

\* C1: in truncate mode the stored rows carry the identifiers 1, 2, ..., N in
\* input order, and a record that is discarded or fails leaves the counter alone.
C1_IdentifierMonotonicity ==
  (append = FALSE /\ Live) =>
    /\ \A i \in 1..Len(table) : table[i].id = i
    /\ inc_id = Len(table) + 1
    /\ Len(LogStored) <= Len(table)
    /\ \A j \in 1..Len(LogStored) :
         NewRows[j] = StoredRow(RowOf(LogStored[j].rec), Len(table) - Len(LogStored) + j)
    /\ \A k \in 1..Len(log) :
         /\ log[k].at \in {"parse", "hash", "insert"} => log[k].id = 0
         /\ log[k].id = 0 => log[k].inc_after = log[k].inc_before
                             /\ log[k].rows_after = log[k].rows_before

\* C1's case: a truncate-mode add in which a record failed and the next one
\* was stored, after an earlier row.
C1_Witness ==
  /\ append = FALSE /\ state = "Accepting"
  /\ Len(log) = 2
  /\ log[1].at \in {"parse", "insert"}
  /\ log[2].id = 2

\* C2: with skip-duplicates on and unique keys, no two stored rows carry the
\* same composite-key tuple.
C2_NoDuplicateKeys ==
  (cfg.skip_duplicate /\ cfg.unique_keys # <<>>) =>
    \A i, j \in 1..Len(table) :
      i < j => KeyTuple(cfg.unique_keys, table[i].vals) # KeyTuple(cfg.unique_keys, table[j].vals)

\* C3 as stated: with skip-duplicates off and unique keys, every record whose
\* extraction succeeds is stored.
C3_EveryExtractedStored ==
  (cfg.skip_duplicate = FALSE /\ cfg.unique_keys # <<>>) =>
    \A k \in 1..Len(log) : Extracted(log[k].rec) => log[k].id # 0

\* C3 amended: with skip-duplicates off and unique keys, every record whose
\* extraction succeeds and whose values SQLite can bind is stored as a new row
\* under the next identifier, so the rows of one add carry consecutive
\* identifiers, copies of the same record included.
C3_DuplicatesAccepted ==
  (cfg.skip_duplicate = FALSE /\ cfg.unique_keys # <<>>) =>
    /\ \A k \in 1..Len(log) :
         Accepted(log[k].rec) =>
           /\ log[k].id = log[k].inc_before
           /\ log[k].id # 0
           /\ log[k].inc_after = log[k].inc_before + 1
           /\ log[k].rows_after = log[k].rows_before + 1
    /\ Len(LogStored) <= Len(table)
    /\ \A j \in 1..Len(LogStored) :
         /\ NewRows[j] = StoredRow(RowOf(LogStored[j].rec), LogStored[j].id)
         /\ j > 1 => LogStored[j].id = LogStored[j - 1].id + 1

\* C3's case: the same record twice in one add, both stored.
C3_Witness ==
  /\ cfg.skip_duplicate = FALSE /\ cfg.unique_keys # <<>>
  /\ Len(log) = 2
  /\ log[1].rec = log[2].rec
  /\ log[1].id # 0
  /\ log[2].id = log[1].id + 1
  /\ Len(table) >= 2
  /\ table[Len(table)].vals = table[Len(table) - 1].vals

\* C4: a collector that reopens in append mode what the previous one stored
\* and committed holds the index that one held at its teardown, holds exactly
\* the key tuples of the rows, and its counter is the row count plus one.
C4_AppendRehydration ==
  (state = "Accepting" /\ append /\ session > 1 /\ call = <<>>
     /\ table = prev.table /\ nfaults = 0) =>
    /\ hash_keys = prev.hash_keys
    /\ IndexKeys(hash_keys) = KeysOf(table)
    /\ inc_id = Len(table) + 1

LastBoundary(n) ==
  LET ks == {k \in 1..n : (k + 1) % cfg.batch_size = 0} IN
  IF ks = {} THEN 0 ELSE CHOOSE k \in ks : \A l \in ks : l <= k

C7_ExtractionFailureScoped ==
  /\ Len(log) = Len(call)
  /\ \A k \in 1..Len(log) :
       /\ log[k].rec = call[k]
       /\ (log[k].at = "parse") <=> ~Extracted(log[k].rec)
       /\ log[k].at = "parse" =>
            /\ log[k].exc \in {"ValueError", "TypeError"}
            /\ log[k].handled = (IF cfg.error_handler THEN 1 ELSE 0)
            /\ ~log[k].escaped
            /\ log[k].id = 0
            /\ log[k].inc_after = log[k].inc_before
            /\ log[k].rows_after = log[k].rows_before
            /\ ~log[k].index_changed
            /\ ~log[k].commit

\* C7's case: a handler is configured, the first record of a call fails in
\* extraction and the second one is stored.
C7_Witness ==
  /\ cfg.error_handler
  /\ Len(log) = 2
  /\ log[1].at = "parse" /\ log[1].handled = 1
  /\ log[2].id # 0

\* C8 as stated: a storage failure during add leaves add and is not handed to
\* the error handler.
C8_StorageFailurePropagates ==
  \A k \in 1..Len(log) :
    log[k].at \in {"insert", "commit"} => (log[k].escaped /\ log[k].handled = 0)

\* C8 amended: a storage failure during add (a rejected insert or commit) is
\* caught by the same except clause as an extraction failure: it is handed to
\* the error handler once (dropped when none is configured), it does not
\* reach the caller, and the remaining records are processed.  A rejected
\* insert stores nothing and consumes no identifier; a rejected commit leaves
\* the row inserted and the identifier consumed.
C8_StorageFailureCaught ==
  /\ Len(log) = Len(call)
  /\ \A k \in 1..Len(log) :
       log[k].at \in {"insert", "commit"} =>
         /\ log[k].exc \in {"ProgrammingError", "OperationalError"}
         /\ ~log[k].escaped
         /\ log[k].handled = (IF cfg.error_handler THEN 1 ELSE 0)
         /\ log[k].at = "insert" =>
              /\ log[k].id = 0
              /\ log[k].inc_after = log[k].inc_before
              /\ log[k].rows_after = log[k].rows_before
         /\ log[k].at = "commit" =>
              /\ log[k].commit
              /\ log[k].id # 0 => /\ log[k].rows_after = log[k].rows_before + 1
                                  /\ log[k].inc_after = log[k].inc_before + 1

\* C8's case: a handler is configured, SQLite rejects the insert of the first
\* record of a call, and the second record is stored.
C8_Witness ==
  /\ cfg.error_handler
  /\ Len(log) = 2
  /\ log[1].at = "insert" /\ log[1].handled = 1
  /\ log[2].id # 0

\* C9: with skip-duplicates on and no unique keys, add of a record fails with
\* the configuration error, which reaches the caller and is not handed to the
\* error handler.
C9_ConfigurationErrorFatal ==
  (cfg.skip_duplicate /\ cfg.unique_keys = <<>>) =>
    \A k \in 1..Len(log) :
      Extracted(log[k].rec) =>
        (log[k].at = "hash" /\ log[k].escaped /\ log[k].handled = 0)

\* C10: with no unique keys and skip-duplicates off no digest is computed:
\* the constructor completes in append mode over a filled table, and add
\* stores every record it extracts and SQLite can bind.
C10_NoDigestWithoutKeys ==
  (cfg.skip_duplicate = FALSE /\ cfg.unique_keys = <<>>) =>
    /\ state # "InitFailed"
    /\ \A k \in 1..Len(log) :
         /\ log[k].at # "hash"
         /\ Accepted(log[k].rec) => log[k].id # 0

\* The state of the collector as __insert takes it.
CollectorState ==
  [table |-> table, ncommitted |-> ncommitted, hash_keys |-> hash_keys,
   inc_id |-> inc_id]

\* C11: add called with one mapping leaves the table, the duplicate index and
\* the identifier counter as add called with the one-element list holding
\* that mapping does (no commit being rejected).
C11_SingleAsList ==
  [][\A name \in RecordNames :
       (nrecs' # nrecs /\ call' = list(name) /\ nfaults' = nfaults) =>
         /\ table' = add_loop(cfg, CollectorState, <<name>>, <<FALSE>>, 1, <<>>).m.table
         /\ hash_keys' = add_loop(cfg, CollectorState, <<name>>, <<FALSE>>, 1, <<>>).m.hash_keys
         /\ inc_id' = add_loop(cfg, CollectorState, <<name>>, <<FALSE>>, 1, <<>>).m.inc_id]_vars

\* The path raw leads to a node of the record: some leaf lies at it or below it.
Walkable(rec, raw) == \E q \in DOMAIN rec : IsPrefix(raw, q)

HandedKeys(rows) == {KeyTuple(cfg.unique_keys, rows[i].handed) : i \in 1..Len(rows)}

\* C13: in an accepting collector with unique keys, after initialization in
\* either mode and after every add, a key tuple is in the duplicate index
\* exactly when some row handed to the storage bears that tuple.
C13_IndexMatchesStorage ==
  (state = "Accepting" /\ cfg.unique_keys # <<>>) =>
    IndexKeys(hash_keys) = HandedKeys(table)

\* The number of entries of an index, over all its buckets.
RECURSIVE SumLens(_, _)
SumLens(idx, ds) ==
  IF ds = {} THEN 0
  ELSE Len(idx[CHOOSE d \in ds : TRUE])
         + SumLens(idx, ds \ {CHOOSE d \in ds : TRUE})

IndexSize(idx) == SumLens(idx, DOMAIN idx)

\* Every bucket of index x is the beginning of the same bucket of index y.
IndexExtends(x, y) ==
  \A d \in DOMAIN x :
    /\ d \in DOMAIN y
    /\ Len(x[d]) <= Len(y[d])
    /\ SubSeq(y[d], 1, Len(x[d])) = x[d]

\* The row of log entry e was stored and its key tuple was not in the index.
NewKeyStored(e) ==
  /\ e.id # 0
  /\ KeyTuple(cfg.unique_keys, RowOf(e.rec)) \notin IndexKeys(e.hash_before)

\* C14 as stated: no bucket lists a tuple twice, the index never shrinks, and
\* it grows by one entry for a stored row whose tuple is new and by none
\* otherwise, with skip-duplicates on or off and after rehydration.
C14_BucketsDistinct ==
  cfg.unique_keys # <<>> =>
    /\ \A d \in DOMAIN hash_keys : \A i, j \in 1..Len(hash_keys[d]) :
         i < j => hash_keys[d][i] # hash_keys[d][j]
    /\ \A k \in 1..Len(log) :
         /\ IndexExtends(log[k].hash_before, log[k].hash_after)
         /\ IndexSize(log[k].hash_after) =
              IndexSize(log[k].hash_before) + (IF NewKeyStored(log[k]) THEN 1 ELSE 0)

\* C14 amended: the index lists one entry per stored row: it never shrinks,
\* it grows by exactly one entry for every record that is stored (a copy of
\* an earlier row included) and by none for a record that fails or is
\* discarded, and it holds as many entries as the table has rows, after
\* rehydration too.  With skip-duplicates on, in a collector that found no
\* rows, no two entries of a bucket are equal under __tuple_eq.
C14_IndexGrowth ==
  cfg.unique_keys # <<>> =>
    /\ IndexSize(hash_keys) = Len(table)
    /\ \A k \in 1..Len(log) :
         /\ IndexExtends(log[k].hash_before, log[k].hash_after)
         /\ IndexSize(log[k].hash_after) =
              IndexSize(log[k].hash_before) + (IF log[k].id # 0 THEN 1 ELSE 0)
    /\ (cfg.skip_duplicate /\ prev.found = 0) =>
         \A d \in DOMAIN hash_keys : \A i, j \in 1..Len(hash_keys[d]) :
           i < j => ~tuple_eq(hash_keys[d][i], hash_keys[d][j])

\* C14's case: skip-duplicates is off, a record was stored twice, and its
\* bucket lists the tuple twice.
C14_Witness ==
  /\ cfg.unique_keys # <<>> /\ cfg.skip_duplicate = FALSE
  /\ state = "Accepting"
  /\ Len(log) = 2 /\ log[1].rec = log[2].rec /\ log[2].id # 0
  /\ \E d \in DOMAIN hash_keys :
       /\ Len(hash_keys[d]) >= 2
       /\ hash_keys[d][1] = hash_keys[d][2]

\* The record of log entry e reached the duplicate check and was discarded by it.
Discarded(e) == e.at \in {"none", "commit"} /\ e.id = 0

\* The key tuple of the record of log entry e.
KeyOf(e) == KeyTuple(cfg.unique_keys, RowOf(e.rec))

\* Tuples x and y print alike, position by position.
SameText(x, y) == \A i \in 1..Len(x) : str(x[i]) = str(y[i])

\* C15 as stated: with skip-duplicates on, a record is found to be a
\* duplicate exactly when its key tuple equals, position by position, a
\* tuple recorded before.
C15_ExactMatch ==
  (cfg.skip_duplicate /\ cfg.unique_keys # <<>>) =>
    \A k \in 1..Len(log) :
      Extracted(log[k].rec) =>
        (Discarded(log[k]) <=>
           \E t \in IndexKeys(log[k].hash_before) : tuple_eq(t, KeyOf(log[k])))

\* C15 amended: with skip-duplicates on, a record is found to be a duplicate
\* exactly when a tuple recorded before equals its key tuple position by
\* position and prints like it (so that both have the same digest); two
\* different tuples under one digest are both stored, in one bucket.
C15_ExactMatchInBucket ==
  (cfg.skip_duplicate /\ cfg.unique_keys # <<>>) =>
    \A k \in 1..Len(log) :
      Extracted(log[k].rec) =>
        /\ Discarded(log[k]) <=>
             \E t \in IndexKeys(log[k].hash_before) :
               tuple_eq(t, KeyOf(log[k])) /\ SameText(t, KeyOf(log[k]))
        /\ (~Discarded(log[k]) /\ log[k].at # "insert") =>
             /\ log[k].id # 0
             /\ KeyOf(log[k]) \in IndexKeys(log[k].hash_after)

\* C15's case: skip-duplicates is on, the keys ("ab", "c") and ("a", "bc") have
\* the same digest, and both records were stored, their tuples in one bucket.
C15_Witness ==
  /\ cfg.skip_duplicate /\ cfg.unique_keys = <<0, 1>>
  /\ call = <<"ab_c", "a_bc">>
  /\ log[1].id # 0 /\ log[2].id = log[1].id + 1
  /\ hash_keys["abc"] = << <<PyStr("ab"), PyStr("c")>>, <<PyStr("a"), PyStr("bc")>> >>

\* C16 as stated: a record discarded as a duplicate issues no insert and no
\* commit and leaves the identifier counter and the index alone, and add
\* issues a commit only for a record whose row was stored.
C16_DiscardTouchesNothing ==
  cfg.unique_keys # <<>> =>
    \A k \in 1..Len(log) :
      /\ Discarded(log[k]) =>
           /\ ~log[k].commit
           /\ log[k].rows_after = log[k].rows_before
           /\ log[k].inc_after = log[k].inc_before
           /\ log[k].hash_after = log[k].hash_before
      /\ log[k].commit => log[k].id # 0

\* C16 amended: a record discarded as a duplicate issues no insert and
\* leaves the identifier counter and the index alone, but the commit test
\* runs for it too: a commit is issued for it exactly when the counter
\* stands at a multiple of the batch size.  A commit is issued only for a
\* record that was stored or discarded, never for one that failed before.
C16_DiscardMayCommit ==
  cfg.unique_keys # <<>> =>
    \A k \in 1..Len(log) :
      /\ Discarded(log[k]) =>
           /\ cfg.skip_duplicate
           /\ log[k].rows_after = log[k].rows_before
           /\ log[k].inc_after = log[k].inc_before
           /\ log[k].hash_after = log[k].hash_before
           /\ log[k].commit <=> log[k].inc_before % cfg.batch_size = 0
      /\ log[k].commit =>
           /\ log[k].id # 0 \/ Discarded(log[k])
           /\ log[k].inc_after % cfg.batch_size = 0

\* C16's case: batch size 2, the first record of a call is stored and
\* committed, its copy is discarded and a commit is issued again.
C16_Witness ==
  /\ cfg.skip_duplicate /\ cfg.unique_keys # <<>> /\ cfg.batch_size = 2
  /\ Len(log) = 2 /\ log[1].rec = log[2].rec
  /\ log[1].id = 1 /\ log[1].commit
  /\ Discarded(log[2]) /\ log[2].commit

\* C17: the constructor in truncate mode leaves an empty table, an empty
\* index and the counter 1, whatever the file held; in append mode it keeps
\* every row the file held, and nothing the collector does afterwards
\* removes or alters one of them.
C17_TruncateVersusAppend ==
  [][/\ session' = session + 1 =>
          /\ prev'.found = Len(disk)
          /\ append' = FALSE =>
               /\ table' = <<>> /\ disk' = <<>>
               /\ hash_keys' = EmptyIndex
               /\ inc_id' = 1
               /\ state' = "Accepting"
          /\ append' = TRUE => (table' = disk /\ disk' = disk)
     /\ (session' = session /\ append) =>
          /\ Len(table') >= prev.found /\ Len(disk') >= prev.found
          /\ SubSeq(table', 1, prev.found) = SubSeq(table, 1, prev.found)
          /\ SubSeq(disk', 1, prev.found) = SubSeq(disk, 1, prev.found)]_vars

\* C17's case: a second collector opened in truncate mode a file that held
\* rows, and holds none.
C17_Witness ==
  /\ session = 2 /\ append = FALSE /\ state = "Accepting"
  /\ prev.found > 0
  /\ call = <<>>
  /\ table = <<>> /\ disk = <<>> /\ hash_keys = EmptyIndex /\ inc_id = 1

\* The raw value the field's extractor takes from the record, before
\* validator, converter and cast: the node at the path for the default
\* parser, what the callable returns for a custom one; ok is FALSE when the
\* path cannot be walked or the callable raises.
RawValue(f, rec) ==
  IF f.parser = "default"
    THEN IF Walkable(rec, f.raw) THEN Ok(NodeAt(rec, f.raw)) ELSE Raise("missing")
    ELSE CallParser(f.parser, rec)

\* C18: when a validator is configured and rejects the raw extracted value,
\* extraction fails with the validation error, with the default parser and
\* with a custom one alike; the default parser applies the converter to a
\* value that passed, and casts what the converter returns.
C18_ValidationOnEveryValue ==
  (presult # NotParsed /\ RawValue(pfield, RecordOf[precord]).ok) =>
    /\ (pfield.validator # "none"
          /\ ~CallValidator(pfield.validator, RawValue(pfield, RecordOf[precord]).v)) =>
         (~presult.ok /\ presult.exc = "ValueError")
    /\ (pfield.parser = "default"
          /\ (pfield.validator = "none"
                \/ CallValidator(pfield.validator, RawValue(pfield, RecordOf[precord]).v))) =>
         presult = Cast(pfield,
                        Ok(IF pfield.converter # "none"
                             THEN CallConverter(pfield.converter,
                                                RawValue(pfield, RecordOf[precord]).v)
                             ELSE RawValue(pfield, RecordOf[precord]).v))

\* What add does with the list r_list in a second collector that holds the
\* same rows, index and counter, has committed all of them, and whose
\* backend rejects nothing.
Twin(r_list) ==
  add_loop(cfg,
           [table |-> table, ncommitted |-> Len(table),
            hash_keys |-> hash_keys, inc_id |-> inc_id],
           r_list, [i \in 1..Len(r_list) |-> FALSE], 1, <<>>)

\* The twin's outcome x against what this collector's add left.
SameOutcome(x) ==
  /\ table' = x.m.table
  /\ hash_keys' = x.m.hash_keys
  /\ inc_id' = x.m.inc_id
  /\ Len(log') = Len(x.log)
  /\ \A k \in 1..Len(x.log) :
       /\ log'[k].rec = x.log[k].rec
       /\ log'[k].id = x.log[k].id
       /\ log'[k].commit = x.log[k].commit

Pending == Len(table) - ncommitted

\* C20 as stated: an accepting collector, in either mode and for any batch
\* size B, holds fewer than B rows that are inserted and not committed.
C20_BoundedLossWindow ==
  state = "Accepting" => Pending < cfg.batch_size

\* C20 amended: an accepting collector holds fewer than B pending rows as
\* long as the backend has accepted every commit; a commit it rejects is
\* caught by add, the rows stay pending until the next boundary, and the
\* window widens by at most B for every rejected commit.
C20_LossWindow ==
  state = "Accepting" =>
    /\ nfaults = 0 => Pending < cfg.batch_size
    /\ Pending < (nfaults + 1) * cfg.batch_size
    /\ Pending >= 0

\* C20's case: batch size 2, no commit rejected, two rows stored and the
\* second one pending: the window is at B - 1.
C20_Witness ==
  /\ state = "Accepting" /\ nfaults = 0 /\ cfg.batch_size = 2
  /\ Len(table) = 2 /\ Pending = 1

====
